---------------------------- MODULE Spec2Model ----------------------------
(***************************************************************************)
(* The component-registry synchronisation tool (scripts/shadcn-ui.tsx):   *)
(* argument validation, the App session controller (loadData and the     *)
(* render switch), the Existence Verifier loop, the Installer Driver and  *)
(* the two update views (batch progress and confirmation).                *)
(***************************************************************************)
EXTENDS Integers, Sequences, FiniteSets, TLC

(***************************************************************************)
(* Bounds of the model.                                                   *)
(***************************************************************************)
\* longest user argument vector (process.argv without node and script)
MaxArgs == 3
\* longest registry manifest
MaxItems == 3
\* largest number of skipped files an installer output declares or lists
MaxFiles == 3
\* longest text, in lines, handed to generateDiff
MaxLines == 3
\* longest list of local names handed to the name reconciler on its own
MaxLocalNames == 2
\* largest totalPages handed to generatePages
MaxPages == 6
\* largest maxVisiblePages handed to generatePages
MaxVisible == 5

(***************************************************************************)
(* State.                                                                 *)
(***************************************************************************)
VARIABLES
  pc,                  \* where the process is
  exitCode,            \* the status the process ends with (read when pc = "exited")
  isAddMissing, isAddAll, isForce, isDiff, componentArg, hasNoArgs,
  registryComponents, existingComponents, missingComponents,
  loading, error, mode, updateResults, diffResults,
  potentialMismatches, verifyIndex, verifiedMissing, alreadyInstalled,
  components, currentIndex, results, awaitingConfirmation,
  fetched,             \* history: "no", "ok" or "failed" (the registry fetch)
  probeLog,            \* history: the probes of the Existence Verifier, in order
  installLog,          \* history: installer invocations, in order
  printed,             \* history: kinds of console messages printed
  fnName, fnArg, fnRet, \* one call of a function on its own: name, argument, result
  handlerIndex \* the currentIndex the subscribed prompt handler was rendered with

argVars == <<isAddMissing, isAddAll, isForce, isDiff, componentArg, hasNoArgs>>
appVars == <<registryComponents, existingComponents, missingComponents,
             loading, error, mode, updateResults, diffResults>>
loadVars == <<potentialMismatches, verifyIndex, verifiedMissing, alreadyInstalled>>
viewVars == <<components, currentIndex, results, awaitingConfirmation>>
histVars == <<fetched, probeLog, installLog, printed>>
fnVars == <<fnName, fnArg, fnRet>>
vars == <<pc, exitCode, argVars, appVars, loadVars, viewVars, histVars, fnVars,
          handlerIndex>>

\* no prompt handler is subscribed.  In the session every render is committed
\* before the next keystroke comes, the handler is that of the committed state
\* and handlerIndex stays at this value
NoHandler == 0 - 1

(***************************************************************************)
(* Helpers on sequences.                                                  *)
(***************************************************************************)
\* Array.prototype.includes
Includes(s, x) == \E i \in 1..Len(s) : s[i] = x

\* duplicate-free sequences over S of length at most n
USeqs(S, n) ==
  UNION {{s \in [1..k -> S] : \A i, j \in 1..k : i # j => s[i] # s[j]} : k \in 0..n}

\* all sequences over S of length at most n
SeqsUpTo(S, n) == UNION {[1..k -> S] : k \in 0..n}

(***************************************************************************)
(* Strings.  A name is a string; SegmentsOf gives its '-'-separated parts, *)
(* on which the substring tests of the code are computed.                 *)
(***************************************************************************)
SegmentsOf(name) ==
  CASE name = "button"      -> <<"button">>
    [] name = "card"        -> <<"card">>
    [] name = "use-toast"   -> <<"use", "toast">>
    [] name = "button-demo" -> <<"button", "demo">>
    [] name = "index"       -> <<"index">>
    [] name = "theme"       -> <<"theme">>
    [] name = "ghost"       -> <<"ghost">>
    [] name = "arrow-icon"  -> <<"arrow", "icon">>
    [] name = "use-arrow-icon" -> <<"use", "arrow", "icon">>
    [] OTHER                -> <<name>>

\* name.includes('-demo')
IncludesDemo(name) ==
  \E i \in 2..Len(SegmentsOf(name)) : SegmentsOf(name)[i] = "demo"

\* the flags the tool knows, and one it does not
KnownFlags == {"--add-missing", "--add-all", "--force", "--diff"}
DashTokens == KnownFlags \cup {"--verbose"}

\* arg.startsWith('-')
StartsWithDash(arg) == arg \in DashTokens

\* the absent component argument (undefined, falsy like the empty string)
NoArg == ""

(***************************************************************************)
(* process.argv: node, the script, then the user's tokens.                *)
(***************************************************************************)
ArgTokens == DashTokens \cup {"button", "ghost"}
ArgVectors == {<<"node", "scripts/shadcn-ui.tsx">> \o u : u \in SeqsUpTo(ArgTokens, MaxArgs)}

\* process.argv.find((arg) => !arg.startsWith('-') && arg !== argv[0] && arg !== argv[1])
FindComponentArg(argv) ==
  LET ok(i) == /\ ~StartsWithDash(argv[i])
               /\ argv[i] # argv[1]
               /\ argv[i] # argv[2]
      hits == {i \in 1..Len(argv) : ok(i)}
  IN  IF hits = {} THEN NoArg
      ELSE argv[CHOOSE i \in hits : \A j \in hits : i <= j]

\* process.argv.length <= 2
HasNoArgs(argv) == Len(argv) <= 2

(***************************************************************************)
(* Argument validation before render.                                     *)
(***************************************************************************)
\* mutant: any batch flag excuses --force from naming a component
ForceNeedsComponentUnlessBatch(force, comp, addAll) ==
  force /\ comp = NoArg /\ ~addAll /\ ~isAddMissing

\* if (isForce && !componentArg && !isAddAll) process.exit(1)
ForceNeedsComponent(force, comp, addAll) == force /\ comp = NoArg /\ ~addAll

\* if (isDiff && !componentArg) process.exit(1)
DiffNeedsComponent(diff, comp) == diff /\ comp = NoArg

(***************************************************************************)
(* Registry Client: fetchRegistryComponents.                              *)
(***************************************************************************)
ManifestNames == {"button", "card", "use-toast", "button-demo", "theme"}

\* what the GET of registry.json can answer
RegistryResponses ==
  {[ok |-> FALSE, hasItems |-> FALSE, items |-> <<>>],
   [ok |-> TRUE, hasItems |-> FALSE, items |-> <<>>]}
  \cup {[ok |-> TRUE, hasItems |-> TRUE, items |-> s] : s \in USeqs(ManifestNames, MaxItems)}

KeepName(name) == ~IncludesDemo(name) /\ name # "index" /\ name # "theme"

\* registry.items.map(name).filter(...)
FilterRegistry(items) == SelectSeq(items, KeepName)

NoError == "none"

\* mutant: the payload is not checked for an items array
RegistryErrorStatusOnly(resp) ==
  IF ~resp.ok THEN "Failed to fetch registry" ELSE NoError

\* the message thrown by fetchRegistryComponents, or NoError
RegistryError(resp) ==
  IF ~resp.ok THEN "Failed to fetch registry"
  ELSE IF ~resp.hasItems THEN "Invalid registry format"
  ELSE NoError

(***************************************************************************)
(* Local Inventory Scanner: getExistingComponents.                        *)
(* A layout gives, per scanned directory, its entries in readdir order     *)
(* (NoDir when the directory is absent) and whether src/globals.css is a   *)
(* regular file.                                                          *)
(***************************************************************************)
NoDir == <<[base |-> "", ext |-> "", isFile |-> FALSE, absent |-> TRUE]>>

File(b, e) == [base |-> b, ext |-> e, isFile |-> TRUE, absent |-> FALSE]
Dir(b) == [base |-> b, ext |-> "", isFile |-> FALSE, absent |-> FALSE]

Layouts ==
  {[components |-> NoDir, icons |-> NoDir, hooks |-> NoDir, globals |-> FALSE],
   [components |-> <<File("button", ".tsx")>>, icons |-> NoDir, hooks |-> <<>>,
    globals |-> FALSE],
   [components |-> <<File("button", ".json"), File("button", ".tsx"),
                     File("card", ".tsx"), File("index", ".tsx")>>,
    icons |-> <<>>, hooks |-> <<File("use-toast", ".ts")>>, globals |-> TRUE],
   [components |-> <<Dir("card"), File("button", ".css")>>, icons |-> NoDir,
    hooks |-> <<File("use-toast", ".tsx")>>, globals |-> FALSE]}

\* the names one directory contributes
ScanDirectory(entries, extensions) ==
  IF entries = NoDir THEN <<>>
  ELSE LET keep(f) == f.isFile /\ f.ext \in extensions /\ f.base # "index"
           kept == SelectSeq(entries, keep)
       IN  [i \in 1..Len(kept) |-> kept[i].base]

getExistingComponents(layout) ==
  ScanDirectory(layout.components, {".tsx", ".json"})
  \o ScanDirectory(layout.icons, {".tsx"})
  \o ScanDirectory(layout.hooks, {".ts", ".tsx"})
  \o (IF layout.globals THEN <<"theme">> ELSE <<>>)

(***************************************************************************)
(* Name Reconciler: the two filters of getVerifiedMissingComponents.      *)
(***************************************************************************)
ExactMatches(registryNames, localNames) ==
  SelectSeq(registryNames, LAMBDA c : Includes(localNames, c))

\* mutant: every registry name is a candidate for verification
PotentialMismatchesAll(registryNames, localNames) == registryNames

PotentialMismatches(registryNames, localNames) ==
  SelectSeq(registryNames, LAMBDA c : ~Includes(localNames, c))

(***************************************************************************)
(* Existence Verifier: verifyComponentMissing on the outcome of the probe *)
(* subprocess.  An outcome says whether execSync threw and, if not, what   *)
(* the captured text holds: the word 'Skipped', the phrase 'files might be *)
(* identical', the number in 'Skipped <n> files:' (NoCount when the pattern*)
(* does not match) and the number of '- src/...' lines.                    *)
(***************************************************************************)
NoCount == 0 - 1

ProbeOutputs ==
  {o \in [throws : BOOLEAN, hasSkipped : BOOLEAN, hasIdentical : BOOLEAN,
          declared : {NoCount} \cup (0..MaxFiles), listed : 0..MaxFiles] :
     /\ (o.declared # NoCount => o.hasSkipped)
     /\ (o.throws => ~o.hasSkipped /\ ~o.hasIdentical /\ o.declared = NoCount /\ o.listed = 0)}

\* mutant: a failing probe counts as 'already installed'
verifyComponentMissingFailsPresent(o) ==
  IF o.throws THEN FALSE
  ELSE ~(o.hasSkipped /\ o.hasIdentical)

\* mutant: the counts decide, a mismatch means 'missing'
verifyComponentMissingByCount(o) ==
  IF o.throws THEN TRUE
  ELSE IF o.hasSkipped /\ o.hasIdentical
       THEN ~(o.declared # NoCount /\ o.listed = o.declared /\ o.declared > 0)
       ELSE TRUE

\* mutant: reconciled counts are taken for an installation under way
verifyComponentMissingReconciledMissing(o) ==
  IF o.throws THEN TRUE
  ELSE IF o.hasSkipped /\ o.hasIdentical
       THEN o.declared # NoCount /\ o.listed = o.declared /\ o.declared > 0
       ELSE TRUE

\* mutant: without a count that can be parsed the component is 'missing'
verifyComponentMissingNeedsCount(o) ==
  IF o.throws THEN TRUE
  ELSE IF o.hasSkipped /\ o.hasIdentical
       THEN o.declared = NoCount
       ELSE TRUE

verifyComponentMissing(o) ==
  IF o.throws THEN TRUE
  ELSE IF o.hasSkipped /\ o.hasIdentical
       THEN IF o.declared # NoCount /\ o.listed = o.declared /\ o.declared > 0
            THEN FALSE
            ELSE FALSE
       ELSE TRUE

(***************************************************************************)
(* Installer Driver: updateComponent.                                     *)
(***************************************************************************)
\* mutant: the overwrite directive is passed only when forced
UpdateCommandForceOnly(componentName, forceOverwrite) ==
  [component |-> componentName,
   flag |-> IF forceOverwrite THEN "--overwrite" ELSE ""]

\* the command line: the component asked for and the flag appended
UpdateCommand(componentName, forceOverwrite) ==
  [component |-> componentName,
   flag |-> IF forceOverwrite THEN "--overwrite" ELSE "--overwrite"]

InstallOutputs ==
  {o \in [throws : BOOLEAN, hasSkipped : BOOLEAN, hasIdentical : BOOLEAN,
          hasUpdated : BOOLEAN, hasInstalling : BOOLEAN] :
     o.throws => ~o.hasSkipped /\ ~o.hasIdentical /\ ~o.hasUpdated /\ ~o.hasInstalling}

\* mutant: a throwing installer is classified with a kind of its own
UpdateResultOfUnknownKind(o) ==
  IF o.throws THEN "error"
  ELSE IF o.hasSkipped /\ o.hasIdentical THEN "skipped"
  ELSE "updated"

\* mutant: 'updated' needs one of the two markers of an update in the output
UpdateResultOfNeedsMarker(o) ==
  IF o.throws THEN "failed"
  ELSE IF o.hasSkipped /\ o.hasIdentical THEN "skipped"
  ELSE IF o.hasUpdated \/ o.hasInstalling THEN "updated"
  ELSE "skipped"

\* the UpdateResult classified from the subprocess outcome
UpdateResultOf(o) ==
  IF o.throws THEN "failed"
  ELSE IF o.hasSkipped /\ o.hasIdentical THEN "skipped"
  ELSE IF o.hasUpdated \/ o.hasInstalling THEN "updated"
  ELSE "updated"

(***************************************************************************)
(* Process start: the module-level reads of process.argv and the initial   *)
(* useState values of App.                                                *)
(***************************************************************************)
Init ==
  /\ \E argv \in ArgVectors :
       /\ isAddMissing = Includes(argv, "--add-missing")
       /\ isAddAll = Includes(argv, "--add-all")
       /\ isForce = Includes(argv, "--force")
       /\ isDiff = Includes(argv, "--diff")
       /\ componentArg = FindComponentArg(argv)
       /\ hasNoArgs = HasNoArgs(argv)
  /\ pc = "validate"
  /\ exitCode = 0
  /\ registryComponents = <<>>
  /\ existingComponents = <<>>
  /\ missingComponents = <<>>
  /\ loading = TRUE
  /\ error = NoError
  /\ mode = "view"
  /\ updateResults = <<>>
  /\ diffResults = <<>>
  /\ potentialMismatches = <<>>
  /\ verifyIndex = 0
  /\ verifiedMissing = <<>>
  /\ alreadyInstalled = <<>>
  /\ components = <<>>
  /\ currentIndex = 0
  /\ results = <<>>
  /\ awaitingConfirmation = TRUE
  /\ fetched = "no"
  /\ probeLog = <<>>
  /\ installLog = <<>>
  /\ printed = {}
  /\ fnName = "none"
  /\ fnArg = <<>>
  /\ fnRet = <<>>
  /\ handlerIndex = NoHandler

\* process.exit(1) after a usage message
ExitWithUsage(msg) ==
  /\ printed' = printed \cup {msg}
  /\ exitCode' = 1
  /\ pc' = "exited"

\* the validation before render(<App />)
Validate ==
  /\ pc = "validate"
  /\ IF ForceNeedsComponent(isForce, componentArg, isAddAll)
       THEN ExitWithUsage("force requires a component name")
     ELSE IF DiffNeedsComponent(isDiff, componentArg)
       THEN ExitWithUsage("diff requires a component name")
     ELSE /\ pc' = "fetch"
          /\ UNCHANGED <<exitCode, printed>>
  /\ UNCHANGED <<argVars, appVars, loadVars, viewVars, fetched, probeLog, installLog>>
  /\ UNCHANGED <<fnVars, handlerIndex>>

\* loadData up to the two setters, or its catch
FetchRegistry ==
  /\ pc = "fetch"
  /\ \E resp \in RegistryResponses, layout \in Layouts :
       /\ fetched' = IF resp.ok /\ resp.hasItems THEN "ok" ELSE "failed"
       /\ IF RegistryError(resp) # NoError
            THEN /\ error' = RegistryError(resp)
                 /\ loading' = FALSE
                 /\ pc' = "mounted"
                 /\ UNCHANGED <<registryComponents, existingComponents>>
            ELSE /\ registryComponents' = FilterRegistry(resp.items)
                 /\ existingComponents' = getExistingComponents(layout)
                 /\ pc' = "analyze"
                 /\ UNCHANGED <<error, loading>>
  /\ UNCHANGED <<exitCode, argVars, missingComponents, mode, updateResults, diffResults,
                 loadVars, viewVars, probeLog, installLog, printed>>
  /\ UNCHANGED <<fnVars, handlerIndex>>

\* getVerifiedMissingComponents up to its loop
Analyze ==
  /\ pc = "analyze"
  /\ potentialMismatches' = PotentialMismatches(registryComponents, existingComponents)
  /\ IF Len(potentialMismatches') = 0
       THEN pc' = "dispatch" /\ verifyIndex' = verifyIndex
       ELSE pc' = "verify" /\ verifyIndex' = 1
  /\ UNCHANGED <<exitCode, argVars, appVars, verifiedMissing, alreadyInstalled,
                 viewVars, histVars>>
  /\ UNCHANGED <<fnVars, handlerIndex>>

\* one turn of the verification loop, and the report after its last turn
VerifyStep ==
  /\ pc = "verify"
  /\ verifyIndex <= Len(potentialMismatches)
  /\ \E o \in ProbeOutputs :
       LET component == potentialMismatches[verifyIndex]
           missing == verifyComponentMissing(o)
           last == verifyIndex = Len(potentialMismatches)
           installed == IF missing THEN alreadyInstalled
                        ELSE Append(alreadyInstalled, component)
       IN  /\ probeLog' = Append(probeLog, [component |-> component, threw |-> o.throws])
           /\ verifiedMissing' = IF missing THEN Append(verifiedMissing, component)
                                 ELSE verifiedMissing
           /\ alreadyInstalled' = installed
           /\ printed' = printed
                \cup (IF o.throws THEN {"could not verify component"} ELSE {})
                \cup (IF last /\ Len(installed) > 0
                      THEN {"already installed under different names"} ELSE {})
           /\ verifyIndex' = verifyIndex + 1
           /\ pc' = IF last THEN "dispatch" ELSE "verify"
  /\ UNCHANGED <<exitCode, argVars, appVars, potentialMismatches, viewVars,
                 fetched, installLog>>
  /\ UNCHANGED <<fnVars, handlerIndex>>

(***************************************************************************)
(* loadData after the verification: the mode dispatch.                    *)
(***************************************************************************)
\* mutant: --add-all installs without looking at --force
DispatchBranchNoDryRun(addAll, addMissing, force, diff, comp, noArgs, reg, missing) ==
  IF addAll
    THEN IF Len(reg) > 0 THEN "install all" ELSE "no registry components"
  ELSE IF addMissing
    THEN IF Len(missing) > 0 THEN "install missing" ELSE "all installed"
  ELSE IF comp # NoArg
    THEN IF Includes(reg, comp)
           THEN IF diff THEN "diff"
                ELSE IF force THEN "force install"
                ELSE "confirm"
           ELSE "not found"
  ELSE IF ~noArgs THEN "unknown arguments"
  ELSE "summary"

\* mutant: --add-missing starts the batch over the whole registry list
DispatchBranchMissingAsAll(addAll, addMissing, force, diff, comp, noArgs, reg, missing) ==
  IF addAll
    THEN IF Len(reg) > 0
           THEN IF force THEN "install all" ELSE "dry run"
           ELSE "no registry components"
  ELSE IF addMissing
    THEN IF Len(reg) > 0 THEN "install all" ELSE "all installed"
  ELSE IF comp # NoArg
    THEN IF Includes(reg, comp)
           THEN IF diff THEN "diff"
                ELSE IF force THEN "force install"
                ELSE "confirm"
           ELSE "not found"
  ELSE IF ~noArgs THEN "unknown arguments"
  ELSE "summary"

\* mutant: --force is looked at before --diff
DispatchBranchForceFirst(addAll, addMissing, force, diff, comp, noArgs, reg, missing) ==
  IF addAll
    THEN IF Len(reg) > 0
           THEN IF force THEN "install all" ELSE "dry run"
           ELSE "no registry components"
  ELSE IF addMissing
    THEN IF Len(missing) > 0 THEN "install missing" ELSE "all installed"
  ELSE IF comp # NoArg
    THEN IF Includes(reg, comp)
           THEN IF force THEN "force install"
                ELSE IF diff THEN "diff"
                ELSE "confirm"
           ELSE "not found"
  ELSE IF ~noArgs THEN "unknown arguments"
  ELSE "summary"

\* mutant: the component name is not looked up in the registry list
DispatchBranchNoLookup(addAll, addMissing, force, diff, comp, noArgs, reg, missing) ==
  IF addAll
    THEN IF Len(reg) > 0
           THEN IF force THEN "install all" ELSE "dry run"
           ELSE "no registry components"
  ELSE IF addMissing
    THEN IF Len(missing) > 0 THEN "install missing" ELSE "all installed"
  ELSE IF comp # NoArg
    THEN IF diff THEN "diff"
         ELSE IF force THEN "force install"
         ELSE "confirm"
  ELSE IF ~noArgs THEN "unknown arguments"
  ELSE "summary"

\* mutant: without arguments the verified-missing components are installed
DispatchBranchSummaryInstalls(addAll, addMissing, force, diff, comp, noArgs, reg, missing) ==
  IF addAll
    THEN IF Len(reg) > 0
           THEN IF force THEN "install all" ELSE "dry run"
           ELSE "no registry components"
  ELSE IF addMissing
    THEN IF Len(missing) > 0 THEN "install missing" ELSE "all installed"
  ELSE IF comp # NoArg
    THEN IF Includes(reg, comp)
           THEN IF diff THEN "diff"
                ELSE IF force THEN "force install"
                ELSE "confirm"
           ELSE "not found"
  ELSE IF ~noArgs THEN "unknown arguments"
  ELSE IF Len(missing) > 0 THEN "install missing"
  ELSE "summary"

\* mutant: the component name is handled before the batch flags
DispatchBranchComponentFirst(addAll, addMissing, force, diff, comp, noArgs, reg, missing) ==
  IF comp # NoArg
    THEN IF Includes(reg, comp)
           THEN IF diff THEN "diff"
                ELSE IF force THEN "force install"
                ELSE "confirm"
           ELSE "not found"
  ELSE IF addAll
    THEN IF Len(reg) > 0
           THEN IF force THEN "install all" ELSE "dry run"
           ELSE "no registry components"
  ELSE IF addMissing
    THEN IF Len(missing) > 0 THEN "install missing" ELSE "all installed"
  ELSE IF ~noArgs THEN "unknown arguments"
  ELSE "summary"

\* which branch of the if / else-if chain runs
DispatchBranch(addAll, addMissing, force, diff, comp, noArgs, reg, missing) ==
  IF addAll
    THEN IF Len(reg) > 0
           THEN IF force THEN "install all" ELSE "dry run"
           ELSE "no registry components"
  ELSE IF addMissing
    THEN IF Len(missing) > 0 THEN "install missing" ELSE "all installed"
  ELSE IF comp # NoArg
    THEN IF Includes(reg, comp)
           THEN IF diff THEN "diff"
                ELSE IF force THEN "force install"
                ELSE "confirm"
           ELSE "not found"
  ELSE IF ~noArgs THEN "unknown arguments"
  ELSE "summary"

\* mutant: the batch keeps the verified-missing list
AddAllInstallListVerifiedOnly(reg, missing) == missing

\* setMissingComponents(regComponents) before setMode('installing')
AddAllInstallList(reg, missing) == reg

\* one installer invocation as the history keeps it
InstallEntry(componentName, forceOverwrite, o) ==
  [component |-> UpdateCommand(componentName, forceOverwrite).component,
   flag |-> UpdateCommand(componentName, forceOverwrite).flag,
   threw |-> o.throws]

\* exit() of the ink app
InkExit == pc' = "exited" /\ exitCode' = exitCode

\* a view with its own state is mounted on the list it is given
Mount(list) ==
  /\ components' = list
  /\ currentIndex' = 0
  /\ results' = <<>>
  /\ awaitingConfirmation' = TRUE

Dispatch ==
  /\ pc = "dispatch"
  /\ loading' = FALSE
  /\ LET branch == DispatchBranch(isAddAll, isAddMissing, isForce, isDiff, componentArg,
                                  hasNoArgs, registryComponents, verifiedMissing)
     IN
     CASE branch = "install all" ->
            /\ missingComponents' = AddAllInstallList(registryComponents, verifiedMissing)
            /\ mode' = "installing"
            /\ Mount(missingComponents')
            /\ pc' = "mounted"
            /\ UNCHANGED <<exitCode, updateResults, installLog, printed>>
       [] branch = "install missing" ->
            /\ missingComponents' = verifiedMissing
            /\ mode' = "installing"
            /\ Mount(missingComponents')
            /\ pc' = "mounted"
            /\ UNCHANGED <<exitCode, updateResults, installLog, printed>>
       [] branch \in {"dry run", "no registry components", "all installed",
                      "not found", "unknown arguments"} ->
            /\ missingComponents' = verifiedMissing
            /\ printed' = printed \cup {branch}
            /\ InkExit
            /\ UNCHANGED <<mode, updateResults, viewVars, installLog>>
       [] branch = "diff" ->
            /\ missingComponents' = verifiedMissing
            /\ pc' = "details"
            /\ UNCHANGED <<exitCode, mode, updateResults, viewVars, installLog, printed>>
       [] branch = "force install" ->
            /\ missingComponents' = verifiedMissing
            /\ \E o \in InstallOutputs :
                 /\ installLog' = Append(installLog, InstallEntry(componentArg, TRUE, o))
                 /\ updateResults' = <<[name |-> componentArg, result |-> UpdateResultOf(o)]>>
                 /\ printed' = printed \cup {"installing with --force"}
                      \cup (IF o.throws THEN {"failed to update component"} ELSE {})
            /\ mode' = "results"
            /\ pc' = "mounted"
            /\ UNCHANGED <<exitCode, viewVars>>
       [] branch = "confirm" ->
            /\ missingComponents' = verifiedMissing
            /\ mode' = "confirming"
            /\ Mount(<<componentArg>>)
            /\ pc' = "mounted"
            /\ UNCHANGED <<exitCode, updateResults, installLog, printed>>
       [] branch = "summary" ->
            /\ missingComponents' = verifiedMissing
            /\ pc' = "mounted"
            /\ UNCHANGED <<exitCode, mode, updateResults, viewVars, installLog, printed>>
  /\ UNCHANGED <<argVars, registryComponents, existingComponents, error, diffResults,
                 loadVars, fetched, probeLog>>
  /\ UNCHANGED <<fnVars, handlerIndex>>

(***************************************************************************)
(* Diff mode: fetchComponentDetails and one DiffRecord per file (the text  *)
(* of each diff is left out of the session state).                        *)
(***************************************************************************)
DetailResponses ==
  {[ok |-> FALSE, files |-> <<>>]}
  \cup {[ok |-> TRUE, files |-> f] :
          f \in {<<>>, <<"button/index.tsx">>, <<"button/index.tsx", "button/styles.css">>}}

FetchDetails ==
  /\ pc = "details"
  /\ \E resp \in DetailResponses :
       IF resp.ok
         THEN /\ diffResults' = [i \in 1..Len(resp.files) |-> [fileName |-> resp.files[i]]]
              /\ mode' = "diff"
              /\ error' = error
         ELSE /\ error' = "Failed to fetch component details"
              /\ UNCHANGED <<diffResults, mode>>
  /\ pc' = "mounted"
  /\ UNCHANGED <<exitCode, argVars, registryComponents, existingComponents, missingComponents,
                 loading, updateResults, loadVars, viewVars, histVars>>
  /\ UNCHANGED <<fnVars, handlerIndex>>

(***************************************************************************)
(* UpdateProgressComponent: the effect of the batch view.                 *)
(***************************************************************************)
\* mutant: the new entry is put in front
PrependResult(prev, entry) == <<entry>> \o prev

\* setResults((prev) => [...prev, { name: component, result }])
AppendResult(prev, entry) == Append(prev, entry)

\* handleUpdateComplete
HandleUpdateComplete ==
  /\ updateResults' = results
  /\ mode' = "results"

\* mutant: a throwing installer is not caught; the batch view dies with an error
InstallNextAborting ==
  /\ pc = "mounted" /\ error = NoError /\ mode = "installing"
  /\ currentIndex < Len(components)
  /\ \E o \in InstallOutputs :
       LET component == components[currentIndex + 1]
       IN  /\ installLog' = Append(installLog, InstallEntry(component, TRUE, o))
           /\ IF o.throws
                THEN /\ error' = "Command failed"
                     /\ UNCHANGED <<results, currentIndex, printed>>
                ELSE /\ results' = AppendResult(results,
                                         [name |-> component, result |-> UpdateResultOf(o)])
                     /\ currentIndex' = currentIndex + 1
                     /\ UNCHANGED <<error, printed>>
  /\ UNCHANGED <<pc, exitCode, argVars, registryComponents, existingComponents,
                 missingComponents, loading, mode, updateResults, diffResults, loadVars,
                 components, awaitingConfirmation, fetched, probeLog>>
  /\ UNCHANGED <<fnVars, handlerIndex>>

\* currentIndex < components.length: install one component
InstallNext ==
  /\ pc = "mounted" /\ error = NoError /\ mode = "installing"
  /\ currentIndex < Len(components)
  /\ \E o \in InstallOutputs :
       LET component == components[currentIndex + 1]
       IN  /\ installLog' = Append(installLog, InstallEntry(component, TRUE, o))
           /\ results' = AppendResult(results,
                                       [name |-> component, result |-> UpdateResultOf(o)])
           /\ printed' = printed
                \cup (IF o.throws THEN {"failed to update component"} ELSE {})
  /\ currentIndex' = currentIndex + 1
  /\ UNCHANGED <<pc, exitCode, argVars, appVars, loadVars, components,
                 awaitingConfirmation, fetched, probeLog>>
  /\ UNCHANGED <<fnVars, handlerIndex>>

\* mutant: the batch reports as soon as one outcome is there
BatchCompleteEarly ==
  /\ pc = "mounted" /\ error = NoError /\ mode = "installing"
  /\ Len(results) >= 1
  /\ HandleUpdateComplete
  /\ UNCHANGED <<pc, exitCode, argVars, registryComponents, existingComponents,
                 missingComponents, loading, error, diffResults, loadVars, viewVars,
                 histVars>>
  /\ UNCHANGED <<fnVars, handlerIndex>>

\* the list is exhausted: onComplete(results)
BatchComplete ==
  /\ pc = "mounted" /\ error = NoError /\ mode = "installing"
  /\ ~(currentIndex < Len(components))
  /\ Len(results) = Len(components)
  /\ HandleUpdateComplete
  /\ UNCHANGED <<pc, exitCode, argVars, registryComponents, existingComponents,
                 missingComponents, loading, error, diffResults, loadVars, viewVars,
                 histVars>>
  /\ UNCHANGED <<fnVars, handlerIndex>>

(***************************************************************************)
(* ComponentUpdateWithConfirmation and its ConfirmationPrompt.            *)
(***************************************************************************)
\* the prompt is on screen and listens to the keyboard
PromptShown ==
  /\ pc = "mounted" /\ error = NoError /\ mode = "confirming"
  /\ currentIndex < Len(components)
  /\ awaitingConfirmation

\* a keystroke as useInput hands it over: the text typed and whether it is
\* the Enter key.  A key without a text of its own (Enter, an arrow, Escape)
\* comes with the empty input
Keys ==
  {[input |-> "", return |-> TRUE], [input |-> "", return |-> FALSE],
   [input |-> "y", return |-> FALSE], [input |-> "Y", return |-> FALSE],
   [input |-> "n", return |-> FALSE], [input |-> "N", return |-> FALSE],
   [input |-> "x", return |-> FALSE], [input |-> "yy", return |-> FALSE]}

\* input.toLowerCase()
ToLowerCase(input) ==
  CASE input = "Y" -> "y"
    [] input = "N" -> "n"
    [] OTHER -> input

\* the handler of ConfirmationPrompt: onConfirm(true), onConfirm(false) or
\* nothing
ConfirmationOf(key) ==
  IF key.return \/ ToLowerCase(key.input) = "y" \/ key.input = "" THEN "yes"
  ELSE IF ToLowerCase(key.input) = "n" THEN "no"
  ELSE "ignored"

\* mutant: a declined item is installed all the same
HandleConfirmationAlwaysInstalls(confirmed) ==
  LET component == components[currentIndex + 1]
  IN  /\ \E o \in InstallOutputs :
             /\ installLog' = Append(installLog, InstallEntry(component, isForce, o))
             /\ results' = AppendResult(results,
                                  [name |-> component,
                                   result |-> IF confirmed THEN UpdateResultOf(o)
                                              ELSE "skipped"])
             /\ printed' = printed
                  \cup (IF o.throws THEN {"failed to update component"} ELSE {})
      /\ currentIndex' = currentIndex + 1
      /\ awaitingConfirmation' = FALSE

\* onConfirm(confirmed): handleConfirmation, then setAwaitingConfirmation(false)
HandleConfirmation(confirmed) ==
  LET component == components[currentIndex + 1]
  IN  /\ IF confirmed
           THEN \E o \in InstallOutputs :
                  /\ installLog' = Append(installLog, InstallEntry(component, isForce, o))
                  /\ results' = AppendResult(results,
                                       [name |-> component, result |-> UpdateResultOf(o)])
                  /\ printed' = printed
                       \cup (IF o.throws THEN {"failed to update component"} ELSE {})
           ELSE /\ results' = AppendResult(results,
                                             [name |-> component, result |-> "skipped"])
                /\ UNCHANGED <<installLog, printed>>
      /\ currentIndex' = currentIndex + 1
      /\ awaitingConfirmation' = FALSE

\* Enter, 'y', 'Y' or an empty input
KeyYes ==
  /\ PromptShown
  /\ \E key \in Keys : ConfirmationOf(key) = "yes"
  /\ HandleConfirmation(TRUE)
  /\ UNCHANGED <<pc, exitCode, argVars, appVars, loadVars, components, fetched, probeLog>>
  /\ UNCHANGED <<fnVars, handlerIndex>>

\* 'n' or 'N'
KeyNo ==
  /\ PromptShown
  /\ \E key \in Keys : ConfirmationOf(key) = "no"
  /\ HandleConfirmation(FALSE)
  /\ UNCHANGED <<pc, exitCode, argVars, appVars, loadVars, components, fetched, probeLog>>
  /\ UNCHANGED <<fnVars, handlerIndex>>

\* any other key
KeyOther ==
  /\ PromptShown
  /\ \E key \in Keys : ConfirmationOf(key) = "ignored"
  /\ UNCHANGED vars

\* the effect of the view: currentIndex >= components.length
ConfirmComplete ==
  /\ pc = "mounted" /\ error = NoError /\ mode = "confirming"
  /\ currentIndex >= Len(components)
  /\ HandleUpdateComplete
  /\ UNCHANGED <<pc, exitCode, argVars, registryComponents, existingComponents,
                 missingComponents, loading, error, diffResults, loadVars, viewVars,
                 histVars>>
  /\ UNCHANGED <<fnVars, handlerIndex>>

(***************************************************************************)
(* The views that end the session in their mount effect: the error         *)
(* display, ResultsComponent, DiffComponent and RegistryBreakdown.        *)
(***************************************************************************)
\* ResultsComponent: results.filter((r) => r.result === kind)
ResultsOfKind(rs, kind) == SelectSeq(rs, LAMBDA r : r.result = kind)

\* the three counts ResultsComponent renders, and the total it renders
ResultsTally(rs) ==
  [updated |-> Len(ResultsOfKind(rs, "updated")),
   skipped |-> Len(ResultsOfKind(rs, "skipped")),
   failed |-> Len(ResultsOfKind(rs, "failed")),
   total |-> Len(rs)]

\* mutant: the registry breakdown does not end the session
ExitingViewNoSummary ==
  /\ ~loading
  /\ \/ error # NoError
     \/ mode \in {"results", "diff"}

ExitingView ==
  /\ ~loading
  /\ \/ error # NoError
     \/ mode \in {"results", "diff"}
     \/ mode = "view" /\ hasNoArgs

ExitEffect ==
  /\ pc = "mounted"
  /\ ExitingView
  /\ InkExit
  /\ UNCHANGED <<argVars, appVars, loadVars, viewVars, histVars>>
  /\ UNCHANGED <<fnVars, handlerIndex>>

(***************************************************************************)
(* The session.                                                           *)
(***************************************************************************)
ProgramStep ==
  \/ Validate
  \/ FetchRegistry
  \/ Analyze
  \/ VerifyStep
  \/ Dispatch
  \/ FetchDetails
  \/ InstallNext
  \/ BatchComplete
  \/ ConfirmComplete
  \/ ExitEffect

RecognisedKey == KeyYes \/ KeyNo

Next == ProgramStep \/ RecognisedKey \/ KeyOther

Spec == Init /\ [][Next]_vars

\* every fetch and subprocess returns, effects run, and the user eventually
\* presses a recognised key while a prompt is shown
LiveSpec == Spec /\ WF_vars(ProgramStep) /\ WF_vars(RecognisedKey)

(***************************************************************************)
(* ComponentUpdateWithConfirmation on its own: the view mounted on a list  *)
(* of components, as its props allow.  App itself mounts it on the one     *)
(* component named on the command line.                                    *)
(***************************************************************************)
PromptNames == {"button", "card", "use-toast"}

ViewMountedWith(handler) ==
  /\ pc = "mounted"
  /\ exitCode = 0
  /\ isAddMissing = FALSE /\ isAddAll = FALSE /\ isDiff = FALSE
  /\ isForce \in BOOLEAN
  /\ hasNoArgs = FALSE
  /\ \E list \in USeqs(PromptNames, MaxItems) :
       /\ Len(list) >= 1
       /\ components = list
       /\ componentArg = (IF Len(list) = 1 THEN list[1] ELSE NoArg)
       /\ missingComponents = (IF Len(list) = 1 THEN <<>> ELSE list)
       /\ registryComponents = list
  /\ existingComponents = <<>>
  /\ loading = FALSE /\ error = NoError /\ mode = "confirming"
  /\ updateResults = <<>> /\ diffResults = <<>>
  /\ potentialMismatches = <<>> /\ verifyIndex = 0
  /\ verifiedMissing = <<>> /\ alreadyInstalled = <<>>
  /\ currentIndex = 0 /\ results = <<>>
  /\ awaitingConfirmation = TRUE
  /\ fetched = "ok" /\ probeLog = <<>> /\ installLog = <<>> /\ printed = {}
  /\ fnName = "none" /\ fnArg = <<>> /\ fnRet = <<>>
  /\ handlerIndex = handler

PromptInit == ViewMountedWith(NoHandler)

PromptNext == KeyYes \/ KeyNo \/ KeyOther \/ ConfirmComplete \/ ExitEffect

PromptSpec == PromptInit /\ [][PromptNext]_vars

(***************************************************************************)
(* The same view when a keystroke can come before the render that follows  *)
(* the previous one is committed.  The handler that useInput has           *)
(* subscribed is the closure of the last committed render: it reads        *)
(* components[currentIndex] with the currentIndex of that render, while    *)
(* the updater functions it queues work on the latest state.  Whether a    *)
(* second keystroke reaches the old handler depends on the scheduling of   *)
(* the render and of the effect that unsubscribes, so both orders are      *)
(* steps of this specification.                                            *)
(***************************************************************************)
\* most keystrokes one subscribed handler gets before the view re-renders
MaxPendingKeys == 2

\* the handler of the render the committed state gives
HandlerOfRender ==
  IF currentIndex < Len(components) /\ awaitingConfirmation
    THEN currentIndex
    ELSE NoHandler

\* the first render is committed: the handler of the first prompt listens
StaleInit == ViewMountedWith(0)

\* handleConfirmation as the handler rendered with currentIndex = index runs
\* it, then setAwaitingConfirmation(false)
HandleConfirmationAt(index, confirmed) ==
  LET component == components[index + 1]
  IN  /\ IF confirmed
           THEN \E o \in InstallOutputs :
                  /\ installLog' = Append(installLog, InstallEntry(component, isForce, o))
                  /\ results' = AppendResult(results,
                                       [name |-> component, result |-> UpdateResultOf(o)])
                  /\ printed' = printed
                       \cup (IF o.throws THEN {"failed to update component"} ELSE {})
           ELSE /\ results' = AppendResult(results,
                                             [name |-> component, result |-> "skipped"])
                /\ UNCHANGED <<installLog, printed>>
      /\ currentIndex' = currentIndex + 1
      /\ awaitingConfirmation' = FALSE

\* a keystroke reaches the subscribed handler
DeliverKey ==
  /\ pc = "mounted" /\ error = NoError /\ mode = "confirming"
  /\ handlerIndex # NoHandler
  /\ currentIndex - handlerIndex < MaxPendingKeys
  /\ \E key \in Keys :
       /\ ConfirmationOf(key) # "ignored"
       /\ HandleConfirmationAt(handlerIndex, ConfirmationOf(key) = "yes")
  /\ UNCHANGED <<pc, exitCode, argVars, appVars, loadVars, components, fetched, probeLog,
                 fnVars, handlerIndex>>

\* the render of the queued state is committed and the handler of the old
\* render is unsubscribed
Rerender ==
  /\ pc = "mounted" /\ error = NoError /\ mode = "confirming"
  /\ handlerIndex # HandlerOfRender
  /\ handlerIndex' = HandlerOfRender
  /\ UNCHANGED <<pc, exitCode, argVars, appVars, loadVars, viewVars, histVars, fnVars>>

\* the effect of the committed render: currentIndex >= components.length
CompleteAfterRender ==
  /\ handlerIndex = HandlerOfRender
  /\ ConfirmComplete

StaleNext == DeliverKey \/ Rerender \/ CompleteAfterRender \/ ExitEffect

StaleSpec == StaleInit /\ [][StaleNext]_vars

(***************************************************************************)
(* Diff Renderer: generateDiff.  A text is the sequence of lines that      *)
(* split('\n') makes of it, so it has at least one line; the result is the  *)
(* sequence of lines that join('\n') puts together.  A result line is a    *)
(* record: the two file headers and the '-' and '+' lines carry a text, a  *)
(* hunk header '@@' carries the two start lines and the two counts.        *)
(***************************************************************************)
TextLines == {"", "a", "b"}

Texts == {t \in SeqsUpTo(TextLines, MaxLines) : Len(t) >= 1}

FileNames == {"button.tsx"}

NoHunk == 0 - 1

MaxOf(a, b) == IF a >= b THEN a ELSE b

DiffLine(tag, text) ==
  [tag |-> tag, text |-> text,
   localStart |-> 0, localCount |-> 0, registryStart |-> 0, registryCount |-> 0]

\* hunkLines.filter((line) => line.startsWith(tag)).length
CountTag(hunkLines, tag) == Len(SelectSeq(hunkLines, LAMBDA l : l.tag = tag))

\* `@@ -${hunkLocalStart + 1},${localCount} +${hunkRegistryStart + 1},${registryCount} @@`
HunkHeader(st) ==
  [tag |-> "@@", text |-> "",
   localStart |-> st.hunkLocalStart + 1, localCount |-> CountTag(st.hunkLines, "-"),
   registryStart |-> st.hunkRegistryStart + 1,
   registryCount |-> CountTag(st.hunkLines, "+")]

\* lines[i] !== undefined, i counted from 0
IsDefinedAt(lines, i) == i < Len(lines)

\* lines[i] || '', i counted from 0
LineOrEmpty(lines, i) == IF IsDefinedAt(lines, i) THEN lines[i + 1] ELSE ""

\* the for loop from index i on
RECURSIVE DiffLoop(_, _, _, _)
DiffLoop(localLines, registryLines, i, st) ==
  IF i >= MaxOf(Len(localLines), Len(registryLines)) THEN st
  ELSE
    LET localLine == LineOrEmpty(localLines, i)
        registryLine == LineOrEmpty(registryLines, i)
    IN IF localLine # registryLine
         THEN LET opened == IF st.hunkStart = NoHunk
                              THEN [st EXCEPT !.hunkStart = i, !.hunkLocalStart = i,
                                              !.hunkRegistryStart = i]
                              ELSE st
                  minus == IF IsDefinedAt(localLines, i)
                             THEN <<DiffLine("-", localLine)>> ELSE <<>>
                  plus == IF IsDefinedAt(registryLines, i)
                            THEN <<DiffLine("+", registryLine)>> ELSE <<>>
              IN DiffLoop(localLines, registryLines, i + 1,
                          [opened EXCEPT !.hunkLines = @ \o minus \o plus])
       ELSE IF st.hunkStart # NoHunk
         THEN DiffLoop(localLines, registryLines, i + 1,
                       [st EXCEPT !.diffLines = @ \o <<HunkHeader(st)>> \o st.hunkLines,
                                  !.hunkStart = NoHunk, !.hunkLines = <<>>])
       ELSE DiffLoop(localLines, registryLines, i + 1, st)

\* mutant: the final flush is not guarded by an open hunk
FinalHunkAlways(st) == st.diffLines \o <<HunkHeader(st)>> \o st.hunkLines

\* 'Handle final hunk if it exists'
FinalHunk(st) ==
  IF st.hunkStart # NoHunk
    THEN st.diffLines \o <<HunkHeader(st)>> \o st.hunkLines
    ELSE st.diffLines

generateDiff(localLines, registryLines, fileName) ==
  FinalHunk(DiffLoop(localLines, registryLines, 0,
                     [hunkStart |-> NoHunk, hunkLocalStart |-> NoHunk,
                      hunkRegistryStart |-> NoHunk, hunkLines |-> <<>>,
                      diffLines |-> <<DiffLine("---", fileName),
                                      DiffLine("+++", fileName)>>]))

(***************************************************************************)
(* Summary view: the categories RegistryBreakdown computes.               *)
(***************************************************************************)
BreakdownNames == {"button", "use-toast", "arrow-icon", "use-arrow-icon", "theme"}

\* name.startsWith('use-')
StartsWithUse(name) ==
  Len(SegmentsOf(name)) >= 2 /\ SegmentsOf(name)[1] = "use"

\* name.endsWith('-icon')
EndsWithIcon(name) ==
  Len(SegmentsOf(name)) >= 2 /\ SegmentsOf(name)[Len(SegmentsOf(name))] = "icon"

RegistryBreakdown(registryNames, missingNames) ==
  LET comps == SelectSeq(registryNames,
                 LAMBDA n : ~StartsWithUse(n) /\ ~EndsWithIcon(n) /\ n # "theme")
      hooks == SelectSeq(registryNames, StartsWithUse)
      icons == SelectSeq(registryNames, EndsWithIcon)
      theme == SelectSeq(registryNames, LAMBDA n : n = "theme")
      IsMissing(n) == Includes(missingNames, n)
  IN [total |-> Len(registryNames),
      components |-> comps, hooks |-> hooks, icons |-> icons, theme |-> theme,
      missingComponentsByCategory |->
        [components |-> SelectSeq(comps, IsMissing),
         hooks |-> SelectSeq(hooks, IsMissing),
         icons |-> SelectSeq(icons, IsMissing),
         theme |-> SelectSeq(theme, IsMissing)]]

(***************************************************************************)
(* SimplePagination: generatePages.  An entry of the list is a page number *)
(* or one of the two ellipsis marks.                                       *)
(***************************************************************************)
MinOf(a, b) == IF a <= b THEN a ELSE b

PageEntry(n) == [kind |-> "page", page |-> n]

EllipsisEntry(kind) == [kind |-> kind, page |-> 0]

generatePages(currentPage, totalPages, maxVisiblePages, showEllipsis) ==
  LET halfVisible == maxVisiblePages \div 2
      startPage0 == MaxOf(1, currentPage - halfVisible)
      endPage0 == MinOf(totalPages, currentPage + halfVisible)
      adjust == endPage0 - startPage0 + 1 < maxVisiblePages
      endPage == IF adjust /\ startPage0 = 1
                   THEN MinOf(totalPages, startPage0 + maxVisiblePages - 1)
                   ELSE endPage0
      startPage == IF adjust /\ startPage0 # 1
                     THEN MaxOf(1, endPage0 - maxVisiblePages + 1)
                     ELSE startPage0
      head == IF showEllipsis /\ startPage > 1
                THEN <<PageEntry(1)>>
                       \o (IF startPage > 2 THEN <<EllipsisEntry("ellipsis-start")>>
                                            ELSE <<>>)
                ELSE <<>>
      window == [k \in 1..(endPage - startPage + 1) |-> PageEntry(startPage + k - 1)]
      tail == IF showEllipsis /\ endPage < totalPages
                THEN (IF endPage < totalPages - 1 THEN <<EllipsisEntry("ellipsis-end")>>
                                                  ELSE <<>>)
                       \o <<PageEntry(totalPages)>>
                ELSE <<>>
  IN [startPage |-> startPage, endPage |-> endPage, pages |-> head \o window \o tail]

(***************************************************************************)
(* The functions on their own: one call of one function on an argument    *)
(* drawn from its bounded domain, outside any session.                     *)
(***************************************************************************)
PartitionNames == {"button", "card", "use-toast"}

FnNames ==
  {"partition", "generateDiff", "verifyComponentMissing", "RegistryBreakdown",
   "updateComponent", "generatePages"}

FnArguments(name) ==
  CASE name = "updateComponent" ->
         [componentName : PartitionNames, forceOverwrite : BOOLEAN,
          output : InstallOutputs]
    [] name = "generatePages" ->
         {a \in [currentPage : 1..MaxPages, totalPages : 1..MaxPages,
                 maxVisiblePages : 1..MaxVisible, showEllipsis : BOOLEAN] :
            a.currentPage <= a.totalPages}
    [] name = "partition" ->
         [registryNames : SeqsUpTo(PartitionNames, MaxItems),
          localNames : SeqsUpTo(PartitionNames, MaxLocalNames)]
    [] name = "generateDiff" ->
         [localContent : Texts, registryContent : Texts, fileName : FileNames]
    [] name = "verifyComponentMissing" -> ProbeOutputs
    [] name = "RegistryBreakdown" ->
         UNION {[registryComponents : {r},
                 missingComponents : {SelectSeq(r, LAMBDA n : n \in S) :
                                        S \in SUBSET BreakdownNames}] :
                r \in USeqs(BreakdownNames, MaxItems)}

FnInit ==
  /\ pc = "call"
  /\ fnName \in FnNames
  /\ fnArg \in FnArguments(fnName)
  /\ fnRet = <<>>
  /\ exitCode = 0
  /\ isAddMissing = FALSE /\ isAddAll = FALSE /\ isForce = FALSE /\ isDiff = FALSE
  /\ componentArg = NoArg /\ hasNoArgs = TRUE
  /\ registryComponents = <<>> /\ existingComponents = <<>>
  /\ missingComponents = <<>>
  /\ loading = TRUE /\ error = NoError /\ mode = "view"
  /\ updateResults = <<>> /\ diffResults = <<>>
  /\ potentialMismatches = <<>> /\ verifyIndex = 0
  /\ verifiedMissing = <<>> /\ alreadyInstalled = <<>>
  /\ components = <<>> /\ currentIndex = 0 /\ results = <<>>
  /\ awaitingConfirmation = TRUE
  /\ fetched = "no" /\ probeLog = <<>> /\ installLog = <<>> /\ printed = {}
  /\ handlerIndex = NoHandler

FnReturn(value) ==
  /\ pc = "call"
  /\ fnRet' = value
  /\ pc' = "return"
  /\ UNCHANGED <<exitCode, argVars, appVars, loadVars, viewVars, histVars,
                 fnName, fnArg, handlerIndex>>

\* the two filters at the head of getVerifiedMissingComponents
ApplyPartition ==
  /\ fnName = "partition"
  /\ FnReturn([exactMatches |-> ExactMatches(fnArg.registryNames, fnArg.localNames),
               potentialMismatches |->
                 PotentialMismatches(fnArg.registryNames, fnArg.localNames)])

ApplyGenerateDiff ==
  /\ fnName = "generateDiff"
  /\ FnReturn(generateDiff(fnArg.localContent, fnArg.registryContent, fnArg.fileName))

ApplyVerify ==
  /\ fnName = "verifyComponentMissing"
  /\ FnReturn(verifyComponentMissing(fnArg))

ApplyBreakdown ==
  /\ fnName = "RegistryBreakdown"
  /\ FnReturn(RegistryBreakdown(fnArg.registryComponents, fnArg.missingComponents))

\* updateComponent: the command it runs and the UpdateResult it returns
ApplyUpdateComponent ==
  /\ fnName = "updateComponent"
  /\ FnReturn([command |-> UpdateCommand(fnArg.componentName, fnArg.forceOverwrite),
               result |-> UpdateResultOf(fnArg.output)])

ApplyGeneratePages ==
  /\ fnName = "generatePages"
  /\ FnReturn(generatePages(fnArg.currentPage, fnArg.totalPages,
                            fnArg.maxVisiblePages, fnArg.showEllipsis))

FnNext ==
  \/ ApplyPartition
  \/ ApplyGenerateDiff
  \/ ApplyVerify
  \/ ApplyBreakdown
  \/ ApplyUpdateComponent
  \/ ApplyGeneratePages

FnSpec == FnInit /\ [][FnNext]_vars

(***************************************************************************)
(* Properties of the session.                                             *)
(***************************************************************************)
\* the component names of the installer invocations so far, in order
InstalledNames == [k \in 1..Len(installLog) |-> installLog[k].component]

IsPrefix(s, t) == Len(s) <= Len(t) /\ \A k \in 1..Len(s) : s[k] = t[k]

NoDuplicates(s) == \A i, j \in 1..Len(s) : i # j => s[i] # s[j]

\* the session runs, or has run, a batch install
InBatch == mode = "installing" \/ (mode = "results" /\ (isAddAll \/ isAddMissing))

\* C1 (state part): in a batch every installer invocation has its own entry in
\* the results, 'failed' exactly when that invocation threw, and a batch that
\* reached 'results' has invoked the installer for every item of the list.
C1_FailureIsolated ==
  InBatch =>
    /\ Len(installLog) = Len(results)
    /\ Len(results) = currentIndex
    /\ \A k \in 1..Len(results) :
         /\ results[k].name = components[k]
         /\ installLog[k].component = components[k]
         /\ (results[k].result = "failed" <=> installLog[k].threw)
    /\ (mode = "results" =>
          /\ Len(installLog) = Len(components)
          /\ updateResults = results)

\* C1: in a batch install a failed installer invocation is recorded as 'failed'
\* for that item only, the installer is still invoked for every later item, and
\* the batch always reaches the 'results' state: no failure aborts it.
C1_BatchSurvivesFailures ==
  /\ []C1_FailureIsolated
  /\ (mode = "installing") ~> (mode = "results")

\* C1 witness: the first item failed, the second was still installed, and the
\* batch reached 'results'.
C1_Witness ==
  /\ InBatch /\ mode = "results"
  /\ Len(components) >= 2
  /\ installLog[1].threw /\ results[1].result = "failed"
  /\ results[2].result = "updated"

\* C2: when --force comes with no component name and no --add-all, or --diff
\* with no component name, the process exits with status 1 before the registry
\* is fetched and before any probe or install subprocess is started.
C2_InvalidArgumentsExitFirst ==
  ((isForce /\ componentArg = NoArg /\ ~isAddAll) \/ (isDiff /\ componentArg = NoArg)) =>
    /\ fetched = "no"
    /\ probeLog = <<>>
    /\ installLog = <<>>
    /\ pc \in {"validate", "exited"}
    /\ (pc = "exited" => exitCode = 1)

\* C2 witness: --force with --add-missing and no component name has exited
\* with status 1.
C2_Witness ==
  /\ isForce /\ isAddMissing /\ ~isAddAll /\ componentArg = NoArg
  /\ pc = "exited" /\ exitCode = 1

C4_AddAllForceInstallsWholeRegistry ==
  (isAddAll /\ isForce) =>
    /\ (mode \in {"installing", "results"} =>
          /\ Len(registryComponents) > 0
          /\ components = registryComponents
          /\ missingComponents = registryComponents)
    /\ IsPrefix(InstalledNames, registryComponents)
    /\ (mode = "results" => InstalledNames = registryComponents)
    /\ (pc = "exited" /\ fetched = "ok" /\ Len(registryComponents) > 0 =>
          mode = "results")

\* C4 witness: the verifier found less missing than the registry lists, and
\* every registry component was installed.
C4_Witness ==
  /\ isAddAll /\ isForce
  /\ mode = "results"
  /\ Len(registryComponents) >= 2
  /\ Len(verifiedMissing) < Len(registryComponents)
  /\ InstalledNames = registryComponents

\* C5: with --add-missing and without --add-all the installer is invoked for
\* the verified-missing components only, once each and in that list's order;
\* a session that ends has invoked it for all of them, and with an empty
\* verified-missing list no mode is entered and nothing is installed.
C5_AddMissingInstallsVerifiedMissing ==
  (isAddMissing /\ ~isAddAll) =>
    /\ IsPrefix(InstalledNames, verifiedMissing)
    /\ NoDuplicates(InstalledNames)
    /\ (pc = "exited" => InstalledNames = verifiedMissing)
    /\ (pc \in {"mounted", "exited"} /\ Len(verifiedMissing) = 0 => mode = "view")

\* C5 witness: the session ended after installing the verified-missing
\* components, which are not the whole registry list.
C5_Witness ==
  /\ isAddMissing /\ ~isAddAll
  /\ pc = "exited"
  /\ Len(installLog) >= 1
  /\ Len(verifiedMissing) < Len(registryComponents)

\* C6 as stated: with --diff and a component name the installer is never
\* invoked, whatever the other flags are.
C6_DiffNeverInstalls ==
  (isDiff /\ componentArg # NoArg) => installLog = <<>>

\* C6 (amended): with --diff and a component name, and with neither --add-all
\* nor --add-missing, the installer is never invoked and no installing,
\* confirming or results mode is entered; a session that ends without error
\* for a component of the registry list ends in mode 'diff'.
C6_DiffWithoutBatchFlagNeverInstalls ==
  (isDiff /\ componentArg # NoArg /\ ~isAddAll /\ ~isAddMissing) =>
    /\ installLog = <<>>
    /\ mode \in {"view", "diff"}
    /\ (/\ pc = "exited" /\ error = NoError
        /\ Includes(registryComponents, componentArg)
        => mode = "diff")

\* C6 witness: --diff together with --force ended in the diff view.
C6_Witness ==
  /\ isDiff /\ isForce /\ componentArg # NoArg /\ ~isAddAll /\ ~isAddMissing
  /\ pc = "exited" /\ mode = "diff"
  /\ Len(diffResults) > 0

\* C7: with a component name that is not in the filtered registry list and
\* with neither --add-all nor --add-missing, the installer is never invoked,
\* no mode other than the initial one is entered, and a session that ends
\* has printed the not-found error (or shows the fetch error).
C7_UnknownComponentInstallsNothing ==
  (/\ componentArg # NoArg
   /\ ~Includes(registryComponents, componentArg)
   /\ ~isAddAll /\ ~isAddMissing) =>
    /\ installLog = <<>>
    /\ mode = "view"
    /\ pc # "details"
    /\ (pc = "mounted" => error # NoError)
    /\ (pc = "exited" => "not found" \in printed \/ error # NoError)

\* C7 witness: --force with a name the registry does not list: the not-found
\* error was printed and the session ended.
C7_Witness ==
  /\ componentArg = "ghost" /\ isForce /\ ~isAddAll /\ ~isAddMissing
  /\ Len(registryComponents) > 0
  /\ pc = "exited" /\ "not found" \in printed

\* C8 (state part): after a failed manifest fetch the error display is up, no
\* probe and no installer invocation happened and the mode is the initial one.
C8_FetchFailureState ==
  fetched = "failed" =>
    /\ error # NoError
    /\ ~loading
    /\ probeLog = <<>>
    /\ installLog = <<>>
    /\ mode = "view"
    /\ pc \in {"mounted", "exited"}

\* C8: if the manifest fetch fails (non-success status, or a payload without
\* an items array) the session goes to the error display and ends; no probe,
\* no installer invocation and no mode other than the initial one.
C8_FetchFailureEndsSession ==
  /\ []C8_FetchFailureState
  /\ (fetched = "failed") ~> (pc = "exited")

\* C8 witness: the fetch failed under --add-all --force and the session ended.
C8_Witness ==
  /\ fetched = "failed" /\ isAddAll /\ isForce
  /\ pc = "exited" /\ error = "Invalid registry format"

\* C9: every session terminates: whatever the arguments and the outcomes of
\* fetches and subprocesses, exit is eventually called (every fetch and
\* subprocess returns; a shown prompt eventually gets a recognised key).
C9_EverySessionTerminates == <>(pc = "exited")

\* C9 witness: a session that went through the confirmation prompt has ended.
C9_Witness ==
  /\ pc = "exited" /\ exitCode = 0
  /\ mode = "results"
  /\ components = <<componentArg>> /\ Len(updateResults) = 1

\* C10 (step part): a step that changes the results appends exactly one entry
\* at the end, naming the component at that position of the list processed.
C10_AppendsOne ==
  results' # results =>
    /\ Len(results') = Len(results) + 1
    /\ SubSeq(results', 1, Len(results)) = results
    /\ components' = components
    /\ results'[Len(results')].name = components[Len(results')]
    /\ results'[Len(results')].result \in {"updated", "skipped", "failed"}

C11_TallyComplete ==
  (InBatch /\ mode = "results") =>
    /\ ResultsTally(updateResults).total = Len(components)
    /\ ResultsTally(updateResults).updated + ResultsTally(updateResults).skipped
         + ResultsTally(updateResults).failed = Len(components)

\* C11: a batch always ends with a final tally: the batch over n components
\* reaches 'results' with exactly n outcomes whose three counts add up to n,
\* also when some or all items failed.
C11_BatchEndsWithTally ==
  /\ []C11_TallyComplete
  /\ (mode = "installing") ~>
       (mode = "results" /\ ResultsTally(updateResults).total = Len(components))

\* C11 witness: a batch of two or more components in which every item
\* failed shows its tally.
C11_Witness ==
  /\ InBatch /\ mode = "results"
  /\ Len(components) >= 2
  /\ ResultsTally(updateResults).failed = Len(components)

\* the component names of the probes so far, in order
ProbedNames == [k \in 1..Len(probeLog) |-> probeLog[k].component]

\* C16: when the probe subprocess exits non-zero or throws, the component is
\* judged missing and ends up in the verified-missing list, no error is
\* raised, and the verification loop goes on: after the loop every candidate
\* has been probed.
C16_VerifierFailSafe ==
  /\ \A k \in 1..Len(probeLog) :
       probeLog[k].threw =>
         /\ Includes(verifiedMissing, probeLog[k].component)
         /\ ~Includes(alreadyInstalled, probeLog[k].component)
  /\ (pc \in {"verify", "dispatch"} => error = NoError /\ loading)
  /\ (pc = "verify" =>
        /\ verifyIndex <= Len(potentialMismatches)
        /\ ProbedNames = SubSeq(potentialMismatches, 1, verifyIndex - 1))
  /\ (fetched = "ok" /\ pc \in {"dispatch", "details", "mounted", "exited"} =>
        ProbedNames = potentialMismatches)

\* C16 witness: the first probe failed, the second was still run, and the
\* first component is the one verified missing.
C16_Witness ==
  /\ pc = "dispatch"
  /\ Len(probeLog) >= 2
  /\ probeLog[1].threw /\ ~probeLog[2].threw
  /\ verifiedMissing = <<probeLog[1].component>>

\* C17 as stated: with zero arguments no subprocess is run, neither the
\* Existence Verifier probe nor the Installer Driver.
C17_NoArgsNoSubprocess ==
  hasNoArgs => probeLog = <<>> /\ installLog = <<>>

\* C17 (amended): with zero arguments the Installer Driver is never run and
\* no mode other than the initial one is entered; the Existence Verifier
\* probe is run for the registry names without an exact local match, in
\* order, and for no other name.
C17_NoArgsNeverInstalls ==
  hasNoArgs =>
    /\ installLog = <<>>
    /\ mode = "view"
    /\ IsPrefix(ProbedNames, SelectSeq(registryComponents,
                                        LAMBDA c : ~Includes(existingComponents, c)))
    /\ (pc = "exited" /\ fetched = "ok" =>
          Len(probeLog) = Len(registryComponents)
            - Cardinality({i \in 1..Len(registryComponents) :
                             Includes(existingComponents, registryComponents[i])}))

\* C17 witness: a session without arguments has ended after probing and
\* finding components missing, and has installed nothing.
C17_Witness ==
  /\ hasNoArgs /\ pc = "exited"
  /\ Len(probeLog) >= 2
  /\ Len(verifiedMissing) >= 1
  /\ installLog = <<>>

\* C19: the list getExistingComponents returns never holds the same name
\* twice.
C19_LocalInventoryIsSet == NoDuplicates(existingComponents)

\* C20 (invocation step): in mode 'installing' an installer invocation is for
\* the component at the next list position, all earlier outcomes are in the
\* results, and its own outcome is appended in the same step.
C20_InvokesNextInOrder ==
  (installLog' # installLog /\ mode = "installing") =>
    /\ Len(results) = Len(installLog)
    /\ Len(installLog') = Len(installLog) + 1
    /\ installLog'[Len(installLog')].component = components[Len(installLog) + 1]
    /\ Len(results') = Len(installLog')
    /\ results'[Len(results')].name = components[Len(installLog) + 1]
    /\ mode' = "installing"

\* C20 (completion step): 'results' is entered from 'installing' only when
\* every list position has been invoked once.
C20_ResultsAfterWholeList ==
  (mode = "installing" /\ mode' # "installing") =>
    /\ mode' = "results"
    /\ Len(installLog) = Len(components)
    /\ [k \in 1..Len(installLog) |-> installLog[k].component] = components
    /\ installLog' = installLog
    /\ updateResults' = results

\* C20: a batch processes its list strictly in order, one installer
\* invocation per list position, the outcome of item k appended before item
\* k+1 is invoked, and 'results' entered only after the whole list.
C20_BatchInListOrder ==
  /\ [][C20_InvokesNextInOrder]_vars
  /\ [][C20_ResultsAfterWholeList]_vars

\* C20 witness: a batch of three components has been processed and the
\* results view is up.
C20_Witness ==
  /\ InBatch /\ mode = "results"
  /\ Len(components) >= 3
  /\ Len(installLog) = Len(components)

(***************************************************************************)
(* Properties of the functions on their own.                               *)
(***************************************************************************)
Returned(name) == fnName = name /\ pc = "return"

\* how many of the first i names of s are (b = TRUE) or are not (b = FALSE)
\* in the list t
RankIn(s, t, i, b) == Cardinality({j \in 1..i : Includes(t, s[j]) = b})

\* C12: name reconciliation partitions the registry names: every position of
\* R lands in exactly one of exactMatches and potentialMismatches,
\* exactMatches holds the names of R that occur in L and potentialMismatches
\* the others, and both lists keep the order of R.
C12_PartitionOfRegistry ==
  Returned("partition") =>
    LET R == fnArg.registryNames
        L == fnArg.localNames
        exact == fnRet.exactMatches
        mismatched == fnRet.potentialMismatches
    IN /\ Len(exact) + Len(mismatched) = Len(R)
       /\ Len(exact) = RankIn(R, L, Len(R), TRUE)
       /\ \A i \in 1..Len(R) :
            IF Includes(L, R[i])
              THEN exact[RankIn(R, L, i, TRUE)] = R[i]
              ELSE mismatched[RankIn(R, L, i, FALSE)] = R[i]

\* C12 witness: a registry list whose names alternate between local and not
\* local has been split into two non-empty lists.
C12_Witness ==
  /\ Returned("partition")
  /\ Len(fnArg.registryNames) >= 3
  /\ Len(fnRet.exactMatches) >= 1
  /\ Len(fnRet.potentialMismatches) >= 2
  /\ Includes(fnArg.localNames, fnArg.registryNames[2])

\* the '+' lines among the n result lines after position k
PlusLinesAfter(out, k, n) ==
  LET last == IF k + n <= Len(out) THEN k + n ELSE Len(out)
      body == SubSeq(out, k + 1, last)
      plus == SelectSeq(body, LAMBDA l : l.tag = "+")
  IN [j \in 1..Len(plus) |-> plus[j].text]

\* the hunk whose header is h: the local lines from h.localStart on,
\* h.localCount of them, are replaced by the hunk's '+' lines
ApplyHunk(lines, h, plus) ==
  LET keep == IF h.localStart - 1 <= Len(lines) THEN h.localStart - 1 ELSE Len(lines)
  IN SubSeq(lines, 1, keep) \o plus
       \o SubSeq(lines, h.localStart + h.localCount, Len(lines))

\* the hunks of out applied onto lines.  The hunks are taken from the last to
\* the first, so that the local line numbers of the hunks still to come are
\* those of the text in hand
RECURSIVE ApplyHunks(_, _, _)
ApplyHunks(lines, out, k) ==
  IF k = 0 THEN lines
  ELSE IF out[k].tag = "@@"
    THEN ApplyHunks(ApplyHunk(lines, out[k],
                              PlusLinesAfter(out, k, out[k].localCount
                                                      + out[k].registryCount)),
                    out, k - 1)
  ELSE ApplyHunks(lines, out, k - 1)

ApplyDiff(lines, out) == ApplyHunks(lines, out, Len(out))

\* C13: generateDiff round trip: the hunks of generateDiff(local, registry)
\* applied onto the local text give the registry text, also when the two
\* texts differ only in trailing empty lines or in length.
C13_DiffRoundTrip ==
  Returned("generateDiff") =>
    ApplyDiff(fnArg.localContent, fnRet) = fnArg.registryContent

\* C14: generateDiff(a, a, label) is the two header lines and nothing else:
\* no hunk header, no '-' line, no '+' line.
C14_DiffIdentity ==
  (Returned("generateDiff") /\ fnArg.localContent = fnArg.registryContent) =>
    /\ fnRet = <<DiffLine("---", fnArg.fileName), DiffLine("+++", fnArg.fileName)>>
    /\ \A k \in 1..Len(fnRet) : fnRet[k].tag # "@@"

\* C14 witness: a text of several lines, an empty one among them, has been
\* compared with itself.
C14_Witness ==
  /\ Returned("generateDiff")
  /\ fnArg.localContent = fnArg.registryContent
  /\ Len(fnArg.localContent) >= 3
  /\ fnArg.localContent[2] = ""
  /\ Len(fnRet) = 2

\* the output of a probe that did not fail declares a count of skipped files
\* and lists a different number of paths
CountsDoNotReconcile(o) ==
  ~o.throws /\ o.declared # NoCount /\ o.listed # o.declared

\* C15 as stated: three files declared skipped, two listed: the component is
\* judged missing.
C15_MismatchJudgedMissing ==
  (Returned("verifyComponentMissing")
     /\ CountsDoNotReconcile(fnArg) /\ fnArg.declared = 3 /\ fnArg.listed = 2) =>
    fnRet = TRUE

\* C15 (amended): the counts do not decide.  When the declared and the listed
\* count do not reconcile, the component is judged present if the output has
\* the notice that files might be identical, and missing if it has not.
C15_MismatchFollowsNotice ==
  (Returned("verifyComponentMissing") /\ CountsDoNotReconcile(fnArg)) =>
    fnRet = ~fnArg.hasIdentical

\* C15 witness: three declared, two listed, the notice is there, and the
\* component was judged present.
C15_Witness ==
  /\ Returned("verifyComponentMissing")
  /\ CountsDoNotReconcile(fnArg)
  /\ fnArg.declared = MaxFiles /\ fnArg.listed = MaxFiles - 1
  /\ fnArg.hasIdentical
  /\ fnRet = FALSE

\* C18: the total of the summary view is the sum of the sizes of the four
\* categories, and every registry name is in exactly one category.
C18_CategoriesPartitionTotal ==
  Returned("RegistryBreakdown") =>
    /\ fnRet.total = Len(fnRet.components) + Len(fnRet.hooks)
                       + Len(fnRet.icons) + Len(fnRet.theme)
    /\ \A i \in 1..Len(fnArg.registryComponents) :
         Cardinality({c \in {"components", "hooks", "icons", "theme"} :
                        Includes(fnRet[c], fnArg.registryComponents[i])}) = 1

(***************************************************************************)
(* Properties of the confirmation prompt.                                  *)
(***************************************************************************)
\* the keys that are a 'yes', a 'no', or neither
KeysOf(answer) == {key \in Keys : ConfirmationOf(key) = answer}

\* C21 (keys): Enter, 'y', 'Y' and the empty input are a 'yes', 'n' and 'N'
\* are a 'no', every other key is ignored.
C21_KeyMeaning ==
  /\ KeysOf("yes") = {key \in Keys : key.return \/ key.input \in {"y", "Y", ""}}
  /\ KeysOf("no") = {key \in Keys : ~key.return /\ key.input \in {"n", "N"}}
  /\ KeysOf("ignored") = {key \in Keys : ~key.return /\ key.input \in {"x", "yy"}}

\* C21 (install step): in mode 'confirming' the installer is invoked only in
\* the step of a 'yes' key while the prompt of that item is shown, once, for
\* the item of the prompt.
C21_InstallOnlyOnYes ==
  (mode = "confirming" /\ installLog' # installLog) =>
    /\ PromptShown
    /\ KeyYes
    /\ Len(installLog') = Len(installLog) + 1
    /\ installLog'[Len(installLog')].component = components[currentIndex + 1]

\* C21 (decline step): a 'no' key appends 'skipped' for the item and leaves
\* the installer alone.
C21_NoSkipsWithoutInstall ==
  (PromptShown /\ installLog' = installLog /\ results' # results) =>
    /\ results' = Append(results, [name |-> components[currentIndex + 1],
                                    result |-> "skipped"])
    /\ currentIndex' = currentIndex + 1

\* C21 (a step of the prompt): while the prompt is shown a step either is the
\* answer to it, with one outcome appended and the index advanced by one, or
\* it leaves outcomes, index and installer history as they are.
C21_AnswerOrNothing ==
  PromptShown =>
    \/ /\ Len(results') = Len(results) + 1
       /\ currentIndex' = currentIndex + 1
       /\ (installLog' = installLog) = (results'[Len(results')].result = "skipped"
                                          /\ ~KeyYes)
    \/ UNCHANGED <<results, currentIndex, installLog>>

\* C21: the confirmation gate.  The installer runs for an item only on a
\* 'yes' key for that item, a 'no' key records 'skipped' without the
\* installer, every other key changes nothing.
C21_ConfirmationGate ==
  /\ []C21_KeyMeaning
  /\ [][C21_InstallOnlyOnYes]_vars
  /\ [][C21_NoSkipsWithoutInstall]_vars
  /\ [][C21_AnswerOrNothing]_vars
  /\ [][KeyOther => UNCHANGED <<results, currentIndex, installLog>>]_vars

\* C21 witness: the prompt was declined: one outcome 'skipped', the installer
\* never ran, and the results view is up.
C21_Witness ==
  /\ mode = "results" /\ ~InBatch /\ ~isForce
  /\ componentArg # NoArg
  /\ updateResults = <<[name |-> componentArg, result |-> "skipped"]>>
  /\ installLog = <<>>

TimesIn(log, f, c) == Cardinality({k \in 1..Len(log) : log[k][f] = c})

\* C28: in confirming mode the installer is invoked at most once for each
\* listed component and the results get at most one entry for each, also
\* when keystrokes come before the view has re-rendered.
C28_AtMostOncePerComponent ==
  \A i \in 1..Len(components) :
    /\ TimesIn(installLog, "component", components[i]) <= 1
    /\ TimesIn(results, "name", components[i]) <= 1

\* the probe output has the notice of files skipped as identical
MentionsIdenticalSkip(o) == ~o.throws /\ o.hasSkipped /\ o.hasIdentical

\* the declared count can be parsed, is positive and equals the listed paths
CountsReconcile(o) == o.declared # NoCount /\ o.declared > 0 /\ o.listed = o.declared

\* C23: when the probe output has the identical-skip notice and the number of
\* listed paths equals the declared count, which is positive,
\* verifyComponentMissing returns false.
C23_ReconciledIsPresent ==
  (Returned("verifyComponentMissing")
     /\ MentionsIdenticalSkip(fnArg) /\ CountsReconcile(fnArg)) =>
    fnRet = FALSE

\* C23 witness: two files declared, two listed, judged present.
C23_Witness ==
  /\ Returned("verifyComponentMissing")
  /\ MentionsIdenticalSkip(fnArg)
  /\ fnArg.declared = 2 /\ fnArg.listed = 2
  /\ fnRet = FALSE

\* C24: with the identical-skip notice and counts that do not reconcile, or
\* no count to parse, the component is judged present; it is judged missing
\* only when the notice is absent or the subprocess failed.
C24_ConservativeDefault ==
  Returned("verifyComponentMissing") =>
    /\ (MentionsIdenticalSkip(fnArg) /\ ~CountsReconcile(fnArg) => fnRet = FALSE)
    /\ (fnRet = TRUE => fnArg.throws \/ ~(fnArg.hasSkipped /\ fnArg.hasIdentical))
    /\ (fnArg.throws \/ ~(fnArg.hasSkipped /\ fnArg.hasIdentical) => fnRet = TRUE)

\* C24 witness: the notice is there, no count could be parsed, judged
\* present.
C24_Witness ==
  /\ Returned("verifyComponentMissing")
  /\ MentionsIdenticalSkip(fnArg)
  /\ fnArg.declared = NoCount
  /\ fnRet = FALSE

\* C26: the command updateComponent runs is the same for force = true and
\* force = false, and it always carries the overwrite directive.
C26_CommandIgnoresForce ==
  Returned("updateComponent") =>
    /\ fnRet.command = UpdateCommand(fnArg.componentName, ~fnArg.forceOverwrite)
    /\ fnRet.command.flag = "--overwrite"
    /\ fnRet.command.component = fnArg.componentName

\* C26 witness: a call without force has run the command with the overwrite
\* directive.
C26_Witness ==
  /\ Returned("updateComponent")
  /\ ~fnArg.forceOverwrite
  /\ fnRet.command.flag = "--overwrite"

\* C27: the classification of the installer outcome is total and exclusive:
\* 'failed' exactly for a throwing invocation, 'skipped' exactly for a
\* returning one whose output has 'Skipped' and 'files might be identical',
\* 'updated' for every other; and every call returns.
C27_ClassificationTotal ==
  /\ (fnName = "updateComponent" /\ pc = "call" => ENABLED ApplyUpdateComponent)
  /\ (Returned("updateComponent") =>
        LET o == fnArg.output
        IN /\ fnRet.result \in {"updated", "skipped", "failed"}
           /\ (fnRet.result = "failed") = o.throws
           /\ (fnRet.result = "skipped") = (~o.throws /\ o.hasSkipped /\ o.hasIdentical)
           /\ (fnRet.result = "updated")
                = (~o.throws /\ ~(o.hasSkipped /\ o.hasIdentical)))

\* C27 witness: an output with none of the marker texts was classified
\* 'updated'.
C27_Witness ==
  /\ Returned("updateComponent")
  /\ ~fnArg.output.throws
  /\ ~fnArg.output.hasSkipped /\ ~fnArg.output.hasIdentical
  /\ ~fnArg.output.hasUpdated /\ ~fnArg.output.hasInstalling
  /\ fnRet.result = "updated"

\* the page numbers of the list, in order
NumericEntries(pages) ==
  LET nums == SelectSeq(pages, LAMBDA e : e.kind = "page")
  IN [k \in 1..Len(nums) |-> nums[k].page]

\* C30: the window startPage..endPage contains currentPage, lies within
\* 1..totalPages and has at most maxVisiblePages pages; the numeric entries
\* of the list are strictly increasing.
C30_PageWindow ==
  Returned("generatePages") =>
    /\ fnRet.startPage <= fnArg.currentPage /\ fnArg.currentPage <= fnRet.endPage
    /\ 1 <= fnRet.startPage /\ fnRet.endPage <= fnArg.totalPages
    /\ fnRet.endPage - fnRet.startPage + 1 <= fnArg.maxVisiblePages
    /\ \A k \in 1..(Len(NumericEntries(fnRet.pages)) - 1) :
         NumericEntries(fnRet.pages)[k] < NumericEntries(fnRet.pages)[k + 1]

\* C25 (state): the probes so far are the first candidates of
\* potentialMismatches, in list order and each once; no probed name has an
\* exact local match; each probed name is in exactly one of verifiedMissing
\* and alreadyInstalled; after the loop every candidate has been probed.
C25_ProbesFollowCandidates ==
  /\ Len(probeLog) <= Len(potentialMismatches)
  /\ ProbedNames = SubSeq(potentialMismatches, 1, Len(probeLog))
  /\ NoDuplicates(ProbedNames)
  /\ \A k \in 1..Len(probeLog) :
       /\ Includes(registryComponents, ProbedNames[k])
       /\ ~Includes(existingComponents, ProbedNames[k])
       /\ Includes(verifiedMissing, ProbedNames[k])
            # Includes(alreadyInstalled, ProbedNames[k])
  /\ Len(verifiedMissing) + Len(alreadyInstalled) = Len(probeLog)
  /\ (fetched = "ok" /\ pc \notin {"analyze", "verify"} =>
        /\ Len(probeLog) = Len(potentialMismatches)
        /\ {ProbedNames[k] : k \in 1..Len(probeLog)}
             = {registryComponents[i] : i \in 1..Len(registryComponents)}
                 \ {existingComponents[i] : i \in 1..Len(existingComponents)})

\* C25 (step): probes are run one at a time, during the verification loop
\* only, and the verdict of a probe is recorded in the step of the probe.
C25_OneProbePerStep ==
  probeLog' # probeLog =>
    /\ pc = "verify" /\ loading
    /\ probeLog = SubSeq(probeLog', 1, Len(probeLog))
    /\ Len(probeLog') = Len(probeLog) + 1
    /\ Len(verifiedMissing') + Len(alreadyInstalled') = Len(probeLog')

\* C25: during loading the Existence Verifier runs exactly once for each name
\* of potentialMismatches, one at a time in list order, never for a name with
\* an exact local match, and each probed name ends in exactly one of
\* verifiedMissing and alreadyInstalled.
C25_SequentialVerification ==
  /\ []C25_ProbesFollowCandidates
  /\ [][C25_OneProbePerStep]_vars

\* C25 witness: loading is over, a name with an exact local match was not
\* probed, and of the names probed one was verified missing and one found
\* installed.
C25_Witness ==
  /\ pc = "dispatch"
  /\ Len(probeLog) >= 2
  /\ Len(probeLog) < Len(registryComponents)
  /\ Len(verifiedMissing) >= 1
  /\ Len(alreadyInstalled) >= 1

\* C29 (state): a batch flag keeps the session away from the component name,
\* --diff and the single-component --force install; --add-all comes before
\* --add-missing.
C29_BatchFlagsFirst ==
  /\ (isAddAll \/ isAddMissing =>
        /\ mode \notin {"confirming", "diff"}
        /\ pc # "details"
        /\ diffResults = <<>>
        /\ printed \cap {"not found", "installing with --force", "diff",
                          "unknown arguments"} = {}
        /\ (mode = "results" => updateResults = results /\ Len(components) >= 1))
  /\ (isAddAll =>
        /\ printed \cap {"all installed"} = {}
        /\ (mode # "view" => isForce /\ components = registryComponents))
  /\ (~isAddAll /\ isAddMissing =>
        /\ printed \cap {"dry run", "no registry components"} = {}
        /\ (mode # "view" => components = verifiedMissing))
  /\ (~isAddAll /\ ~isAddMissing =>
        /\ mode # "installing"
        /\ printed \cap {"dry run", "no registry components", "all installed"} = {}
        /\ (mode # "view" => componentArg # NoArg
                              /\ Includes(registryComponents, componentArg)))

\* C29 (step): a session selects a mode once: it leaves 'view' for one of
\* 'installing', 'confirming', 'diff' and 'results', and after that only
\* 'installing' and 'confirming' change, to 'results'.
C29_ModeSelectedOnce ==
  mode' # mode =>
    \/ mode = "view" /\ mode' \in {"installing", "confirming", "diff", "results"}
    \/ mode \in {"installing", "confirming"} /\ mode' = "results"

\* C29: mode selection follows the precedence --add-all, --add-missing,
\* component name; with a batch flag the component name, --diff and the
\* single-component --force are never reached; at most one mode is selected
\* per session.
C29_ModePrecedence ==
  /\ []C29_BatchFlagsFirst
  /\ [][C29_ModeSelectedOnce]_vars

\* C29 witness: --add-all --force with a component name of the registry: the
\* whole registry was installed as a batch.
C29_Witness ==
  /\ isAddAll /\ isForce /\ componentArg # NoArg
  /\ Includes(registryComponents, componentArg)
  /\ mode = "results"
  /\ Len(installLog) >= 2
  /\ InstalledNames = registryComponents

=============================================================================
